---- MODULE Spec2Model ----
(***************************************************************************)
(* Star catalogue merge of dcf21/star-charter:                             *)
(*   data/stars/starCataloguesMerge/star_descriptor.py   (StarList)        *)
(*   data/stars/starCataloguesMerge/main_catalogue_merge.py (drivers)      *)
(*                                                                         *)
(* Conventions of the model                                                *)
(*   - a catalogue identifier is a positive integer; 0 stands for the      *)
(*     Python values None, 0 and "" (the code tests identifiers by         *)
(*     truthiness, so the three behave alike);                             *)
(*   - a magnitude is an integer number of milli-magnitudes; NoMag stands  *)
(*     for None;                                                           *)
(*   - star_list is a sequence; the Python index uid is position uid + 1;  *)
(*   - a StarDescriptor that is not in star_list has id = NoId.            *)
(***************************************************************************)
EXTENDS Integers, Sequences, FiniteSets, TLC

\* ------------------------------------------------------------------ bounds
MaxId == 2
MaxStars == 2
MaxMag == 2
MaxLines == 3
MaxOutStars == 3

\* ------------------------------------------------------- program constants
\* None, as a record ID, as a magnitude and as the magnitude limit
NoId == -1
NoMag == -1
NoLimit == -1
\* None, as a parallax and as a distance
NoParallax == -999999
NoDist == -1
\* None, as a right ascension and as a declination
NoPos == -1
\* "parallax > 0.0000001", parallaxes being counted in 1e-8 mas
MinParallax == 10
\* one thousandth of a magnitude, in the 1e-8 magnitudes in which a reference
\* magnitude is counted
RefScale == 100000
\* one magnitude, in the thousandths in which the Tycho colour term 0.090 is 90
MagStep == 1000

IdVals == 1..MaxId
OptIds == 0..MaxId
Mags == {MagStep * k : k \in 1..MaxMag}
\* --magnitude-limit: not given, or the brightest value
Limits == {NoLimit, MagStep}
\* Hipparcos lines: <<BT, VT>>, both unreadable or BT bright and VT faint
HipBands == {<<NoMag, NoMag>>, <<MagStep, MaxMag * MagStep>>}
\* Gaia DR2 lines: <<BP, RP>>, both empty or BP faint and RP bright
GaiaColours == {<<NoMag, NoMag>>, <<MaxMag * MagStep, MagStep>>}

\* cat_name of match_star's loop
CatSet == {"hd", "bs", "hip", "tyc", "dr2"}

\* the StarDescriptor slot holding each kind of identifier
FieldOf(cat_name) ==
    CASE cat_name = "hd" -> "names_hd_num"
      [] cat_name = "bs" -> "names_bs_num"
      [] cat_name = "hip" -> "names_hip_num"
      [] cat_name = "tyc" -> "names_tycho_id"
      [] cat_name = "dr2" -> "names_dr2_num"

\* the magnitude slots add_star inspects, in its order
MagFields == <<"mag_V", "mag_G", "mag_VT", "mag_BT", "mag_BP", "mag_RP">>

\* StarDescriptor.__init__
StarDescriptor ==
    [id |-> NoId,
     mag_V |-> NoMag, mag_BT |-> NoMag, mag_VT |-> NoMag,
     mag_G |-> NoMag, mag_BP |-> NoMag, mag_RP |-> NoMag,
     names_hd_num |-> 0, names_bs_num |-> 0, names_hip_num |-> 0,
     names_tycho_id |-> 0, names_dr2_num |-> 0]

VARIABLES
    magnitude_limit,  \* StarList.magnitude_limit (NoLimit: None)
    star_list,        \* StarList.star_list
    lookup,           \* lookup[c]: StarList.lookup_by_<c>; NoId: key absent
    catalogue,        \* the read_from_* call of merge_star_catalogues that runs
                      \* (1 to 7, in call order)
    aborted,          \* an exception has ended the run (add_star's assertion,
                      \* or the formatting of an output row)
    total_count,      \* catalogue lines read so far by the actions, all
                      \* drivers together
    stage,            \* where merge_star_catalogues is: "read" (the drivers),
                      \* "distances", "sort", "output"
    item,             \* position of the loop of the present stage
    star_magnitudes,  \* the list of <<uid, mag_reference, ra>>
    output_star_charter,  \* rows written to star_charter_stars.dat.gz
    output_json,      \* rows written to all_stars.json.gz
    moved             \* the last match_star call logged "Warning: moving"

\* what the drivers leave alone
out_vars == <<stage, item, star_magnitudes, output_star_charter, output_json,
              moved>>

vars == <<magnitude_limit, star_list, lookup, catalogue, aborted, total_count,
          stage, item, star_magnitudes, output_star_charter, output_json, moved>>

\* StarList.__init__: five empty dictionaries
EmptyLookup == [c \in CatSet |-> [v \in IdVals |-> NoId]]

NoFlags == [c \in CatSet |-> "absent"]

\* "cat_id is not None and cat_id in index"
Bound(index, cat_id) == cat_id # 0 /\ index[cat_id] # NoId

\* star_list[uid]
At(sl, uid) == sl[uid + 1]

\* ------------------------------------------------------- StarList.match_star

\* a HIP rule that keeps every candidate
HipMatchNeverVoided(cand, tycho_id) == FALSE

\* match_star, HIP rule: the candidate carries a different, non-empty Tycho ID
HipMatchVoided(cand, tycho_id) ==
    /\ cand.names_tycho_id # 0
    /\ tycho_id # 0
    /\ cand.names_tycho_id # tycho_id

\* an HD rule that discards every candidate
HdMatchAlwaysVoided(cand, hipparcos_num, tycho_id) == TRUE

\* an HD rule that looks at the Tycho ID only
HdMatchVoidedByTycho(cand, hipparcos_num, tycho_id) ==
    /\ cand.names_tycho_id # 0
    /\ tycho_id # 0
    /\ cand.names_tycho_id # tycho_id

\* match_star, HD rule: the candidate carries a different HIP or Tycho ID
HdMatchVoided(cand, hipparcos_num, tycho_id) ==
    \/ /\ cand.names_hip_num # 0
       /\ cand.names_hip_num > 0
       /\ hipparcos_num # 0
       /\ hipparcos_num > 0
       /\ cand.names_hip_num # hipparcos_num
    \/ /\ cand.names_tycho_id # 0
       /\ tycho_id # 0
       /\ cand.names_tycho_id # tycho_id

\* match_star, Gaia DR2 and Tycho lookups: the second is not guarded by
\* "star is None", so a Tycho hit replaces a Gaia DR2 hit
MatchDr2Tycho(lk, tycho_id, dr2_id) ==
    LET after_dr2 == IF Bound(lk["dr2"], dr2_id) THEN lk["dr2"][dr2_id] ELSE NoId
    IN  IF Bound(lk["tyc"], tycho_id) THEN lk["tyc"][tycho_id] ELSE after_dr2

\* match_star, HIP lookup, tried when nothing matched so far
MatchHip(sl, lk, so_far, hipparcos_num, tycho_id) ==
    IF so_far = NoId /\ Bound(lk["hip"], hipparcos_num)
    THEN LET uid == lk["hip"][hipparcos_num]
         IN  IF HipMatchVoided(At(sl, uid), tycho_id) THEN NoId ELSE uid
    ELSE so_far

\* match_star, HD lookup, tried when nothing matched so far
MatchHd(sl, lk, so_far, hd_number, hipparcos_num, tycho_id) ==
    IF so_far = NoId /\ Bound(lk["hd"], hd_number)
    THEN LET uid == lk["hd"][hd_number]
         IN  IF HdMatchVoided(At(sl, uid), hipparcos_num, tycho_id) THEN NoId ELSE uid
    ELSE so_far

\* a match_star that tries the HD number before the Hipparcos number
MatchCandidateHdFirst(sl, lk, hd_number, hipparcos_num, tycho_id, dr2_id) ==
    LET s2 == MatchDr2Tycho(lk, tycho_id, dr2_id)
        s3 == MatchHd(sl, lk, s2, hd_number, hipparcos_num, tycho_id)
    IN  MatchHip(sl, lk, s3, hipparcos_num, tycho_id)

\* match_star up to "if star is None: star = StarDescriptor()": the uid of the
\* star matched, NoId for a new descriptor
MatchCandidate(sl, lk, hd_number, hipparcos_num, tycho_id, dr2_id) ==
    LET s2 == MatchDr2Tycho(lk, tycho_id, dr2_id)
        s3 == MatchHip(sl, lk, s2, hipparcos_num, tycho_id)
    IN  MatchHd(sl, lk, s3, hd_number, hipparcos_num, tycho_id)

\* an "other_brighter" with the comparison turned round
OtherFainter(other, mag) == other.mag_V # NoMag /\ other.mag_V > mag

\* "other_brighter": the incumbent has a V magnitude below the observation's
OtherBrighter(other, mag) == other.mag_V # NoMag /\ other.mag_V < mag

\* a conflict loop without a winner: the incumbent loses the identifier and
\* the observation is refused it
ResolveConflictBothLose(st, cat_name, cat_id, star_id, mag) ==
    IF cat_id # 0 /\ st.lookup[cat_name][cat_id] # NoId
                  /\ st.lookup[cat_name][cat_id] # star_id
    THEN LET other_id == st.lookup[cat_name][cat_id]
         IN  [st EXCEPT !.ids_for_deletion[cat_name] = "True",
                        !.lookup[cat_name][cat_id] = NoId,
                        !.star_list[other_id + 1][FieldOf(cat_name)] = 0]
    ELSE st

\* a conflict loop that hands the binding to the challenger at once
ResolveConflictRebinds(st, cat_name, cat_id, star_id, mag) ==
    IF cat_id # 0 /\ st.lookup[cat_name][cat_id] # NoId
                  /\ st.lookup[cat_name][cat_id] # star_id
    THEN LET other_id == st.lookup[cat_name][cat_id]
             other == At(st.star_list, other_id)
         IN  IF other.mag_V # NoMag /\ other.mag_V < mag
             THEN [st EXCEPT !.ids_for_deletion[cat_name] = "True"]
             ELSE [st EXCEPT !.ids_for_deletion[cat_name] = "False",
                             !.lookup[cat_name][cat_id] = star_id,
                             !.star_list[other_id + 1][FieldOf(cat_name)] = 0]
    ELSE st

\* a conflict loop that empties the incumbent's field and leaves the binding
ResolveConflictKeepsBinding(st, cat_name, cat_id, star_id, mag) ==
    IF cat_id # 0 /\ st.lookup[cat_name][cat_id] # NoId
                  /\ st.lookup[cat_name][cat_id] # star_id
    THEN LET other_id == st.lookup[cat_name][cat_id]
             other == At(st.star_list, other_id)
         IN  IF other.mag_V # NoMag /\ other.mag_V < mag
             THEN [st EXCEPT !.ids_for_deletion[cat_name] = "True"]
             ELSE [st EXCEPT !.ids_for_deletion[cat_name] = "False",
                             !.star_list[other_id + 1][FieldOf(cat_name)] = 0]
    ELSE st

\* a conflict loop that takes the binding away and leaves the incumbent's
\* field as it is
ResolveConflictKeepsField(st, cat_name, cat_id, star_id, mag) ==
    IF cat_id # 0 /\ st.lookup[cat_name][cat_id] # NoId
                  /\ st.lookup[cat_name][cat_id] # star_id
    THEN LET other_id == st.lookup[cat_name][cat_id]
             other == At(st.star_list, other_id)
         IN  IF other.mag_V # NoMag /\ other.mag_V < mag
             THEN [st EXCEPT !.ids_for_deletion[cat_name] = "True"]
             ELSE [st EXCEPT !.ids_for_deletion[cat_name] = "False",
                             !.lookup[cat_name][cat_id] = NoId]
    ELSE st

\* one turn of match_star's loop over the five identifiers; st carries
\* star_list, lookup and ids_for_deletion
ResolveConflict(st, cat_name, cat_id, star_id, mag) ==
    IF cat_id # 0 /\ st.lookup[cat_name][cat_id] # NoId
                  /\ st.lookup[cat_name][cat_id] # star_id
    THEN LET other_id == st.lookup[cat_name][cat_id]
             other == At(st.star_list, other_id)
         IN  IF OtherBrighter(other, mag)
             THEN [st EXCEPT !.ids_for_deletion[cat_name] = "True"]
             ELSE [st EXCEPT !.ids_for_deletion[cat_name] = "False",
                             !.lookup[cat_name][cat_id] = NoId,
                             !.star_list[other_id + 1][FieldOf(cat_name)] = 0]
    ELSE st

\* match_star: the star matched (star_id; NoId for a new descriptor), the
\* rejection map, and the store as the conflict loop leaves it; calls lists
\* the StarList methods a driver has called for its line
match_star(sl, lk, mag, bs_number, hd_number, hipparcos_num, tycho_id, dr2_id) ==
    LET star_id == MatchCandidate(sl, lk, hd_number, hipparcos_num, tycho_id, dr2_id)
        st0 == [star_list |-> sl, lookup |-> lk, ids_for_deletion |-> NoFlags]
        st1 == ResolveConflict(st0, "hd", hd_number, star_id, mag)
        st2 == ResolveConflict(st1, "bs", bs_number, star_id, mag)
        st3 == ResolveConflict(st2, "hip", hipparcos_num, star_id, mag)
        st4 == ResolveConflict(st3, "tyc", tycho_id, star_id, mag)
        st5 == ResolveConflict(st4, "dr2", dr2_id, star_id, mag)
    IN  [star_id |-> star_id,
         ids_for_deletion |-> st5.ids_for_deletion,
         star_list |-> st5.star_list,
         lookup |-> st5.lookup,
         calls |-> <<"match_star">>]

\* --------------------------------------------------------- StarList.add_star

\* a cut-off that turns away a magnitude equal to the limit
AcceptStarBelow(x, limit) ==
    \/ limit = NoLimit
    \/ \E f \in {"mag_V", "mag_G", "mag_VT", "mag_BT", "mag_BP", "mag_RP"} :
          x[f] # NoMag /\ x[f] < limit

\* the magnitude cut-off of add_star
AcceptStar(x, limit) ==
    \/ limit = NoLimit
    \/ \E i \in 1..Len(MagFields) : x[MagFields[i]] # NoMag /\ x[MagFields[i]] <= limit

\* an ID counter that starts at one
NewStarIdFromOne(sl) == Len(sl) + 1

\* the ID add_star gives a star that has none
NewStarId(sl) == Len(sl)

\* a turn of add_star's loop without the assertion
BindIdOverwrites(st, cat_name, cat_id, new_star_id) ==
    IF st.ok /\ cat_id # 0
    THEN [st EXCEPT !.lookup[cat_name][cat_id] = new_star_id]
    ELSE st

\* one turn of add_star's loop over the lookup tables; st carries lookup and
\* ok (FALSE once the assertion has failed, which ends the run)
BindId(st, cat_name, cat_id, new_star_id) ==
    IF st.ok /\ cat_id # 0
    THEN IF st.lookup[cat_name][cat_id] \in {NoId, new_star_id}
         THEN [st EXCEPT !.lookup[cat_name][cat_id] = new_star_id]
         ELSE [st EXCEPT !.ok = FALSE]
    ELSE st

\* an update loop that leaves the Tycho table out
UpdateLookupsNoTycho(lk, x, new_star_id) ==
    LET st0 == [lookup |-> lk, ok |-> TRUE]
        st1 == BindId(st0, "hd", x.names_hd_num, new_star_id)
        st2 == BindId(st1, "bs", x.names_bs_num, new_star_id)
        st3 == BindId(st2, "hip", x.names_hip_num, new_star_id)
    IN  BindId(st3, "dr2", x.names_dr2_num, new_star_id)

\* add_star's "Update lookup tables" loop
UpdateLookups(lk, x, new_star_id) ==
    LET st0 == [lookup |-> lk, ok |-> TRUE]
        st1 == BindId(st0, "hd", x.names_hd_num, new_star_id)
        st2 == BindId(st1, "bs", x.names_bs_num, new_star_id)
        st3 == BindId(st2, "hip", x.names_hip_num, new_star_id)
        st4 == BindId(st3, "tyc", x.names_tycho_id, new_star_id)
    IN  BindId(st4, "dr2", x.names_dr2_num, new_star_id)

\* an add_star without "if star_descriptor.id is None": a star that has an ID
\* is given the next one and appended once more
AdmitStarAgain(sl, x, limit) ==
    IF x.id = NoId /\ ~AcceptStar(x, limit)
    THEN [star |-> x, star_list |-> sl, admitted |-> FALSE]
    ELSE LET y == [x EXCEPT !.id = NewStarId(sl)]
             held == IF x.id = NoId THEN sl ELSE [sl EXCEPT ![x.id + 1] = y]
         IN  [star |-> y, star_list |-> Append(held, y), admitted |-> TRUE]

\* an add_star without the magnitude cut-off
AdmitStarUnfiltered(sl, x, limit) ==
    IF x.id = NoId
    THEN LET y == [x EXCEPT !.id = NewStarId(sl)]
         IN  [star |-> y, star_list |-> Append(sl, y), admitted |-> TRUE]
    ELSE [star |-> x, star_list |-> sl, admitted |-> TRUE]

\* an add_star that applies the magnitude cut-off to every descriptor, with
\* or without an ID
AdmitStarFiltering(sl, x, limit) ==
    IF AcceptStar(x, limit)
    THEN IF x.id = NoId
         THEN LET y == [x EXCEPT !.id = NewStarId(sl)]
              IN  [star |-> y, star_list |-> Append(sl, y), admitted |-> TRUE]
         ELSE [star |-> x, star_list |-> sl, admitted |-> TRUE]
    ELSE [star |-> x, star_list |-> sl, admitted |-> FALSE]

\* add_star's first half: the descriptor with its ID, and the store with it
\* appended when it is new and passes the cut-off
AdmitStar(sl, x, limit) ==
    IF x.id = NoId
    THEN IF AcceptStar(x, limit)
         THEN LET y == [x EXCEPT !.id = NewStarId(sl)]
              IN  [star |-> y, star_list |-> Append(sl, y), admitted |-> TRUE]
         ELSE [star |-> x, star_list |-> sl, admitted |-> FALSE]
    ELSE [star |-> x, star_list |-> sl, admitted |-> TRUE]

\* add_star
add_star(sl, lk, x, limit) ==
    LET a == AdmitStar(sl, x, limit)
        b == IF a.admitted THEN UpdateLookups(lk, a.star, a.star.id)
                           ELSE [lookup |-> lk, ok |-> TRUE]
    IN  [star |-> a.star, star_list |-> a.star_list, lookup |-> b.lookup, ok |-> b.ok]

\* ------------------------------------------------- the ingestion drivers

\* a descriptor match_star returned: the object star_list holds, or a new one
Descriptor(m) ==
    IF m.star_id = NoId THEN StarDescriptor ELSE At(m.star_list, m.star_id)

\* the driver writes attributes of the object match_star returned; when that
\* object is in star_list the write is seen there
WriteThrough(sl, x) == IF x.id = NoId THEN sl ELSE [sl EXCEPT ![x.id + 1] = x]

\* "if 'hd' in ids_to_delete and ids_to_delete['hd']: hd_number = None"
Granted(flags, cat_name, cat_id) == IF flags[cat_name] = "True" THEN 0 ELSE cat_id

\* "if hd_number: star.names_hd_num = hd_number"
WithId(x, cat_name, cat_id) ==
    IF cat_id # 0 THEN [x EXCEPT ![FieldOf(cat_name)] = cat_id] ELSE x

\* "if mag_bt is not None: star.mag_BT = mag_bt"
WithMag(x, field, mag) == IF mag # NoMag THEN [x EXCEPT ![field] = mag] ELSE x

\* Tycho 2: Johnson V from BT and VT, mag_vt - 0.090 * (mag_bt - mag_vt)
TychoV(mag_bt, mag_vt) == mag_vt - (90 * (mag_bt - mag_vt)) \div 1000

\* what a driver that creates its own descriptor has in place of a match
NoMatch == [star_id |-> NoId, ids_for_deletion |-> NoFlags,
            star_list |-> star_list, lookup |-> lookup, calls |-> <<>>]

\* the end of a line, star_data.add_star(star_descriptor=star): the store
\* after the line, with what match_star returned (star_id, ids_for_deletion)
\* and the driver's descriptor as add_star leaves it (star)
Commit(m, x) ==
    LET a == add_star(WriteThrough(m.star_list, x), m.lookup, x, magnitude_limit)
    IN  [star_list |-> a.star_list, lookup |-> a.lookup, ok |-> a.ok,
         star_id |-> m.star_id, ids_for_deletion |-> m.ids_for_deletion,
         star |-> a.star, skipped |-> FALSE,
         calls |-> Append(m.calls, "add_star")]

\* a line the driver leaves with "continue" after match_star has run
Skip(m) ==
    [star_list |-> m.star_list, lookup |-> m.lookup, ok |-> TRUE,
     star_id |-> m.star_id, ids_for_deletion |-> m.ids_for_deletion,
     star |-> Descriptor(m), skipped |-> TRUE, calls |-> m.calls]

\* a read_from_ybsc that fetches its descriptor from match_star
ReadYbscLineMatching(bs_number, hd_number, mag) ==
    LET m == match_star(star_list, lookup, mag, bs_number, hd_number, 0, 0, 0)
        x1 == [Descriptor(m) EXCEPT !.names_bs_num = bs_number]
        x2 == WithId(x1, "hd", Granted(m.ids_for_deletion, "hd", hd_number))
        x3 == [x2 EXCEPT !.mag_V = mag]
    IN  Commit(m, x3)

\* one line of read_from_ybsc
ReadYbscLine(bs_number, hd_number, mag) ==
    LET x1 == [StarDescriptor EXCEPT !.names_bs_num = bs_number]
        x2 == WithId(x1, "hd", hd_number)
        x3 == [x2 EXCEPT !.mag_V = mag]
    IN  Commit(NoMatch, x3)

\* one line of read_from_hipparcos
ReadHipparcosLine(hipparcos_num, hd_number, mag, mag_bt, mag_vt) ==
    LET m == match_star(star_list, lookup, mag, 0, hd_number, hipparcos_num, 0, 0)
        hd == Granted(m.ids_for_deletion, "hd", hd_number)
        hip == Granted(m.ids_for_deletion, "hip", hipparcos_num)
        x1 == [Descriptor(m) EXCEPT !.mag_V = mag]
        x2 == WithMag(WithMag(x1, "mag_BT", mag_bt), "mag_VT", mag_vt)
        x3 == WithId(WithId(x2, "hd", hd), "hip", hip)
    IN  Commit(m, x3)

\* one line of read_from_tycho_1
ReadTycho1Line(tycho_id, hipparcos_num, hd_number, mag) ==
    LET m == match_star(star_list, lookup, mag, 0, hd_number, hipparcos_num, tycho_id, 0)
        hd == Granted(m.ids_for_deletion, "hd", hd_number)
        hip == Granted(m.ids_for_deletion, "hip", hipparcos_num)
        tyc == Granted(m.ids_for_deletion, "tyc", tycho_id)
        x1 == WithId(WithId(WithId(Descriptor(m), "tyc", tyc), "hip", hip), "hd", hd)
        x2 == [x1 EXCEPT !.mag_V = mag]
    IN  Commit(m, x2)

\* one line of read_from_tycho_2
ReadTycho2Line(tycho_id, hipparcos_num, mag_bt, mag_vt) ==
    LET mag == TychoV(mag_bt, mag_vt)
        m == match_star(star_list, lookup, mag, 0, 0, hipparcos_num, tycho_id, 0)
        hip == Granted(m.ids_for_deletion, "hip", hipparcos_num)
        tyc == Granted(m.ids_for_deletion, "tyc", tycho_id)
        x1 == WithId(WithId(Descriptor(m), "tyc", tyc), "hip", hip)
        x2 == [x1 EXCEPT !.mag_V = mag, !.mag_BT = mag_bt, !.mag_VT = mag_vt]
    IN  Commit(m, x2)

\* one line of read_from_hipparcos_new whose HIP number is in the lookup table
ReadHipparcosNewLine(hipparcos_num) ==
    LET uid == lookup["hip"][hipparcos_num]
        m == [NoMatch EXCEPT !.star_id = uid]
    IN  Commit(m, At(star_list, uid))

\* one line of read_from_gaia_dr1
ReadGaiaDr1Line(tycho_id, hipparcos_num, mag) ==
    LET m == match_star(star_list, lookup, mag, 0, 0, hipparcos_num, tycho_id, 0)
        hip == Granted(m.ids_for_deletion, "hip", hipparcos_num)
        tyc == Granted(m.ids_for_deletion, "tyc", tycho_id)
        x1 == WithId(WithId(Descriptor(m), "tyc", tyc), "hip", hip)
    IN  Commit(m, x1)

\* one line of read_from_gaia_dr2
ReadGaiaDr2Line(dr2_id, tycho_id, hipparcos_num, mag_g, mag_bp, mag_rp) ==
    LET m == match_star(star_list, lookup, mag_g, 0, 0, hipparcos_num, tycho_id, dr2_id)
        hip == Granted(m.ids_for_deletion, "hip", hipparcos_num)
        tyc == Granted(m.ids_for_deletion, "tyc", tycho_id)
        \* "if star.id is None: star_data.add_star(star_descriptor=star)  # Assign ID"
        a == IF m.star_id = NoId
             THEN add_star(m.star_list, m.lookup, StarDescriptor, magnitude_limit)
             ELSE [star |-> Descriptor(m), star_list |-> m.star_list,
                   lookup |-> m.lookup, ok |-> TRUE]
        x1 == WithId(WithId(WithId(a.star, "dr2", dr2_id), "tyc", tyc), "hip", hip)
        x2 == WithMag(WithMag([x1 EXCEPT !.mag_G = mag_g], "mag_BP", mag_bp), "mag_RP", mag_rp)
        m2 == [m EXCEPT !.star_list = a.star_list, !.lookup = a.lookup,
                        !.calls = IF m.star_id = NoId THEN Append(@, "add_star") ELSE @]
    IN  IF m.ids_for_deletion["dr2"] = "True" THEN Skip(m) ELSE Commit(m2, x2)

\* the store takes the outcome r of a line; a failed assertion ends the run
Ingest(r) ==
    /\ Len(r.star_list) <= MaxStars
    /\ total_count' = total_count + 1
    /\ star_list' = r.star_list
    /\ lookup' = r.lookup
    /\ aborted' = ~r.ok
    /\ UNCHANGED <<magnitude_limit, out_vars>>

\* the arguments a driver hands to match_star
Obs(source, mag, bs_number, hd_number, hipparcos_num, tycho_id, dr2_id) ==
    [source |-> source, mag |-> mag, bs_number |-> bs_number, hd_number |-> hd_number,
     hipparcos_num |-> hipparcos_num, tycho_id |-> tycho_id, dr2_id |-> dr2_id]

\* the lines each catalogue file may hold, each with its outcome on the
\* present store
YbscLines ==
    {[obs |-> Obs("bright_stars", mag, bs_number, hd_number, 0, 0, 0),
      out |-> ReadYbscLine(bs_number, hd_number, mag)] :
        bs_number \in IdVals, hd_number \in OptIds, mag \in Mags}

HipparcosLines ==
    {[obs |-> Obs("hipparcos", mag, 0, hd_number, hipparcos_num, 0, 0),
      out |-> ReadHipparcosLine(hipparcos_num, hd_number, mag, bands[1], bands[2])] :
        hipparcos_num \in IdVals, hd_number \in OptIds, mag \in Mags, bands \in HipBands}

Tycho1Lines ==
    {[obs |-> Obs("tycho1", mag, 0, hd_number, hipparcos_num, tycho_id, 0),
      out |-> ReadTycho1Line(tycho_id, hipparcos_num, hd_number, mag)] :
        tycho_id \in IdVals, hipparcos_num \in OptIds, hd_number \in OptIds, mag \in Mags}

Tycho2Lines ==
    {[obs |-> Obs("tycho2", TychoV(mag_bt, mag_vt), 0, 0, hipparcos_num, tycho_id, 0),
      out |-> ReadTycho2Line(tycho_id, hipparcos_num, mag_bt, mag_vt)] :
        tycho_id \in IdVals, hipparcos_num \in OptIds, mag_bt \in Mags, mag_vt \in Mags}

HipparcosNewLines ==
    {[obs |-> Obs("hipparcos_new", NoMag, 0, 0, hipparcos_num, 0, 0),
      out |-> ReadHipparcosNewLine(hipparcos_num)] :
        hipparcos_num \in {h \in IdVals : Bound(lookup["hip"], h)}}

GaiaDr1Lines ==
    {[obs |-> Obs("gaia_dr1", mag, 0, 0, hipparcos_num, tycho_id, 0),
      out |-> ReadGaiaDr1Line(tycho_id, hipparcos_num, mag)] :
        tycho_id \in OptIds, hipparcos_num \in OptIds, mag \in Mags}

GaiaDr2Lines ==
    {[obs |-> Obs("gaia_dr2", mag_g, 0, 0, hipparcos_num, tycho_id, dr2_id),
      out |-> ReadGaiaDr2Line(dr2_id, tycho_id, hipparcos_num, mag_g, colours[1], colours[2])] :
        dr2_id \in IdVals, tycho_id \in OptIds, hipparcos_num \in OptIds,
        mag_g \in Mags, colours \in GaiaColours}

\* read_from_* k may run when no later one has run: merge_star_catalogues
\* calls them in the order 1 to 7
CanRead(k) == catalogue <= k /\ ~aborted /\ total_count < MaxLines

ReadYbsc ==
    /\ CanRead(1) /\ catalogue' = 1
    /\ \E line \in YbscLines : Ingest(line.out)

ReadHipparcos ==
    /\ CanRead(2) /\ catalogue' = 2
    /\ \E line \in HipparcosLines : Ingest(line.out)

ReadTycho1 ==
    /\ CanRead(3) /\ catalogue' = 3
    /\ \E line \in Tycho1Lines : Ingest(line.out)

ReadTycho2 ==
    /\ CanRead(4) /\ catalogue' = 4
    /\ \E line \in Tycho2Lines : Ingest(line.out)

ReadHipparcosNew ==
    /\ CanRead(5) /\ catalogue' = 5
    /\ \E line \in HipparcosNewLines : Ingest(line.out)

ReadGaiaDr1 ==
    /\ CanRead(6) /\ catalogue' = 6
    /\ \E line \in GaiaDr1Lines : Ingest(line.out)

ReadGaiaDr2 ==
    /\ CanRead(7) /\ catalogue' = 7
    /\ \E line \in GaiaDr2Lines : Ingest(line.out)

\* StarList(magnitude_limit=...): an empty store; the cut-off is the option
\* --magnitude-limit, or None
Init ==
    /\ magnitude_limit \in Limits
    /\ star_list = <<>>
    /\ lookup = EmptyLookup
    /\ catalogue = 1
    /\ aborted = FALSE
    /\ total_count = 0
    /\ stage = "read"
    /\ item = 0
    /\ star_magnitudes = <<>>
    /\ output_star_charter = <<>>
    /\ output_json = <<>>
    /\ moved = FALSE

Next ==
    \/ ReadYbsc
    \/ ReadHipparcos
    \/ ReadTycho1
    \/ ReadTycho2
    \/ ReadHipparcosNew
    \/ ReadGaiaDr1
    \/ ReadGaiaDr2

Spec == Init /\ [][Next]_vars

\* the store when read_from_tycho_1 has read a line with Tycho ID 1 and a line
\* with Tycho ID 2, both of V magnitude 1.000 and without other numbers, the
\* catalogues before it being empty
TwoTychoStars ==
    <<[StarDescriptor EXCEPT !.id = 0, !.names_tycho_id = 1, !.mag_V = MagStep],
      [StarDescriptor EXCEPT !.id = 1, !.names_tycho_id = 2, !.mag_V = MagStep]>>

\* a run that is followed from that store on, or from the start
LateInit ==
    /\ magnitude_limit \in Limits
    /\ \/ star_list = <<>> /\ lookup = EmptyLookup /\ catalogue = 1
       \/ /\ star_list = TwoTychoStars
          /\ lookup = [EmptyLookup EXCEPT !["tyc"] = [v \in IdVals |-> v - 1]]
          /\ catalogue = 3
    /\ aborted = FALSE
    /\ total_count = 0
    /\ stage = "read"
    /\ item = 0
    /\ star_magnitudes = <<>>
    /\ output_star_charter = <<>>
    /\ output_json = <<>>
    /\ moved = FALSE

LateSpec == LateInit /\ [][Next]_vars


\* ------------------------------- merge_star_catalogues, after the drivers

\* a driver's "star.parallax = parallax" for a measurement <<how, parallax,
\* parallax_error>>: how tells the guard, "hipparcos" for "if parallax and
\* (parallax_error < parallax * maximum_allowed_parallax_error)", "tycho1" for
\* "if parallax is not None and (...)", "manual" for "if parallax"
StoredParallax(how, parallax, parallax_error) ==
    CASE how = "hipparcos" ->
             IF parallax # 0 /\ 10 * parallax_error < 3 * parallax
             THEN parallax ELSE NoParallax
      [] how = "tycho1" ->
             IF 10 * parallax_error < 3 * parallax THEN parallax ELSE NoParallax
      [] how = "manual" ->
             IF parallax # 0 THEN parallax ELSE NoParallax

\* parallax measurements of the catalogue files
ParallaxLines ==
    {<<"hipparcos", 11, 1>>, <<"hipparcos", 0, -1>>, <<"hipparcos", 1000, 400>>,
     <<"tycho1", 0, -1>>, <<"tycho1", 5, 1>>, <<"tycho1", 10, 1>>,
     <<"manual", -5, 0>>, <<"manual", 1000, 0>>}

\* <<V, G, BP, RP>> of a record when the drivers have run
Photometry ==
    {<<MagStep, NoMag, NoMag, NoMag>>,
     <<2 * MagStep, MagStep, 3 * MagStep, MagStep>>,
     <<14 * MagStep, NoMag, NoMag, NoMag>>,
     <<NoMag, MagStep, MagStep + 500, MagStep>>,
     <<NoMag, MagStep, MagStep, 3 * MagStep>>,
     <<NoMag, MagStep, 2 * MagStep, NoMag>>,
     <<NoMag, MagStep, NoMag, NoMag>>,
     <<NoMag, NoMag, 2 * MagStep, MagStep>>}

\* a record of the store when the drivers have run; named: it carries a
\* catalogue number
OutStar(phot, ra, parallax, named) ==
    [ra |-> ra, parallax |-> parallax, dist |-> NoDist, named |-> named] @@
    [StarDescriptor EXCEPT !.mag_V = phot[1], !.mag_G = phot[2],
                           !.mag_BP = phot[3], !.mag_RP = phot[4]]

OutStars ==
    {OutStar(phot, ra, NoParallax, TRUE) : phot \in Photometry, ra \in {1, 2}} \cup
    {OutStar(<<MagStep, NoMag, NoMag, NoMag>>, 1,
             StoredParallax(p[1], p[2], p[3]), named) :
         p \in ParallaxLines, named \in BOOLEAN}

\* the records in the store: each has its position as ID and, if named,
\* an HD number of its own
Placed(s) ==
    [i \in 1..Len(s) |->
        [s[i] EXCEPT !.id = i - 1,
                     !.names_hd_num = IF s[i].named THEN i ELSE 0]]

\* "Work out distances of stars from parallaxes": one turn of the loop.
\* Parallax in 1e-8 mas, distance in millions of light-years
WithDistance(x) ==
    IF x.parallax # NoParallax /\ x.parallax # 0
    THEN IF x.parallax > MinParallax
         THEN [x EXCEPT !.dist = 326156 \div x.parallax]
         ELSE [x EXCEPT !.parallax = NoParallax]
    ELSE x

\* reference_magnitude with the two colour coefficients exchanged
reference_magnitudeSwapped(star) ==
    IF star.mag_V # NoMag
    THEN star.mag_V * RefScale
    ELSE IF star.mag_G # NoMag /\ star.mag_BP # NoMag /\ star.mag_RP # NoMag
    THEN LET br == star.mag_BP - star.mag_RP
         IN  star.mag_G * RefScale + 1760000 + 17320 * br
                 + (686 * ((br * br) \div 100)) \div 10
    ELSE IF star.mag_G # NoMag
    THEN star.mag_G * RefScale + 1760000
    ELSE NoMag

\* reference_magnitude with the Gaia estimates tried before the V magnitude
reference_magnitudeGaiaFirst(star) ==
    IF star.mag_G # NoMag /\ star.mag_BP # NoMag /\ star.mag_RP # NoMag
    THEN LET br == star.mag_BP - star.mag_RP
         IN  star.mag_G * RefScale + 1760000 + 686 * br
                 + 1732 * ((br * br) \div 100)
    ELSE IF star.mag_G # NoMag
    THEN star.mag_G * RefScale + 1760000
    ELSE IF star.mag_V # NoMag
    THEN star.mag_V * RefScale
    ELSE NoMag

\* reference_magnitude, in 1e-8 magnitudes; the colours of the model are
\* whole hundredths of a magnitude, for which the division is exact
reference_magnitude(star) ==
    IF star.mag_V # NoMag
    THEN star.mag_V * RefScale
    ELSE IF star.mag_G # NoMag /\ star.mag_BP # NoMag /\ star.mag_RP # NoMag
    THEN LET br == star.mag_BP - star.mag_RP
         IN  star.mag_G * RefScale + 1760000 + 686 * br
                 + 1732 * ((br * br) \div 100)
    ELSE IF star.mag_G # NoMag
    THEN star.mag_G * RefScale + 1760000
    ELSE NoMag

\* "for uid, star in enumerate(star_data.star_list)": the list of
\* <<uid, mag_reference, star.ra>> of the records with a reference magnitude
StarMagnitudes(list) ==
    SelectSeq([i \in 1..Len(list) |->
                   <<i - 1, reference_magnitude(list[i]), list[i].ra>>],
              LAMBDA x : x[2] # NoMag)

\* the order of the sort keys (x[1], x[2]) of python, which are our x[2], x[3]
KeyLeqMagnitudeOnly(a, b) == a[2] <= b[2]

KeyLeq(a, b) == a[2] < b[2] \/ (a[2] = b[2] /\ a[3] <= b[3])

RECURSIVE SortedInsert(_, _)
SortedInsert(x, s) ==
    IF s = <<>> THEN <<x>>
    ELSE IF KeyLeq(s[1], x) THEN <<s[1]>> \o SortedInsert(x, Tail(s))
    ELSE <<x>> \o s

\* list.sort(key=...): a stable sort
RECURSIVE SortStars(_)
SortStars(s) ==
    IF s = <<>> THEN <<>>
    ELSE SortedInsert(s[Len(s)], SortStars(SubSeq(s, 1, Len(s) - 1)))

\* "Limiting magnitude of 14 for StarCharter"
mag_limit == 14 * MagStep * RefScale

\* the values an output row takes from a record: parallax and dist are 0
\* unless the record has a parallax
OutputRow(star) ==
    [hd_num |-> star.names_hd_num, ra |-> star.ra,
     mag_list |-> <<star.mag_V, star.mag_G, star.mag_BP, star.mag_RP>>,
     mag_reference |-> reference_magnitude(star),
     parallax |-> IF star.parallax # NoParallax THEN star.parallax ELSE 0,
     dist |-> IF star.parallax # NoParallax THEN star.dist ELSE 0]

\* "if (not ybsn_num) and (not hd_num) and (not hip_num) and (not tycho_id)
\* and (not dr2_id)"
NoCatalogueIds(star) == \A c \in CatSet : star[FieldOf(c)] = 0

\* the row goes to the text file
ForStarCharter(row) == row.mag_reference # NoMag /\ row.mag_reference < mag_limit

OutInit ==
    /\ magnitude_limit = NoLimit
    /\ star_list \in {Placed(s) : s \in UNION {[1..n -> OutStars] : n \in 0..MaxOutStars}}
    /\ lookup = EmptyLookup
    /\ catalogue = 8
    /\ aborted = FALSE
    /\ total_count = 0
    /\ stage = "distances"
    /\ item = 0
    /\ star_magnitudes = <<>>
    /\ output_star_charter = <<>>
    /\ output_json = <<>>
    /\ moved = FALSE

\* one turn of "for item in star_data.star_list"
DeriveDistance ==
    /\ stage = "distances" /\ item < Len(star_list)
    /\ star_list' = [star_list EXCEPT ![item + 1] = WithDistance(@)]
    /\ item' = item + 1
    /\ UNCHANGED <<magnitude_limit, lookup, catalogue, aborted, total_count,
                   stage, star_magnitudes, output_star_charter, output_json, moved>>

\* "Creating list of stars in order of brightness...": the whole loop
ListMagnitudes ==
    /\ stage = "distances" /\ item = Len(star_list)
    /\ star_magnitudes' = StarMagnitudes(star_list)
    /\ stage' = "sort"
    /\ UNCHANGED <<magnitude_limit, star_list, lookup, catalogue, aborted,
                   total_count, item, output_star_charter, output_json, moved>>

\* star_magnitudes.sort(key=lambda x: (x[1], x[2]))
SortMagnitudes ==
    /\ stage = "sort"
    /\ star_magnitudes' = SortStars(star_magnitudes)
    /\ stage' = "output"
    /\ item' = 0
    /\ UNCHANGED <<magnitude_limit, star_list, lookup, catalogue, aborted,
                   total_count, output_star_charter, output_json, moved>>

\* one turn of "for item in star_magnitudes". The format "{:17.12f}" of the
\* text row raises TypeError for a dist of None
WriteStar ==
    /\ stage = "output" /\ ~aborted /\ item < Len(star_magnitudes)
    /\ LET star == star_list[star_magnitudes[item + 1][1] + 1]
           row == OutputRow(star)
       IN  IF NoCatalogueIds(star)
           THEN /\ item' = item + 1
                /\ UNCHANGED <<aborted, output_star_charter, output_json>>
           ELSE IF ForStarCharter(row) /\ row.dist = NoDist
           THEN /\ aborted' = TRUE
                /\ UNCHANGED <<item, output_star_charter, output_json>>
           ELSE /\ output_star_charter' =
                       IF ForStarCharter(row)
                       THEN Append(output_star_charter, row)
                       ELSE output_star_charter
                /\ output_json' = Append(output_json, row)
                /\ item' = item + 1
                /\ UNCHANGED aborted
    /\ UNCHANGED <<magnitude_limit, star_list, lookup, catalogue, total_count,
                   stage, star_magnitudes, moved>>

OutNext ==
    \/ DeriveDistance
    \/ ListMagnitudes
    \/ SortMagnitudes
    \/ WriteStar

OutSpec == OutInit /\ [][OutNext]_vars


\* ------------------------------------ the drivers, with the positions read

\* right ascensions (0 and 60 degrees), declinations (0 and 0.05 degrees) and
\* thresholds (0.01 and 0.1 degrees), in hundredths of a degree
RaVals == {0, 6000}
DeclVals == {0, 5}
Thresholds == {1, 10}

\* twice cos(ra_new * pi / 180), for the right ascensions of RaVals
TwiceCos(ra_new) == IF ra_new = 0 THEN 2 ELSE 1

\* check_positions_agree: TRUE when it logs "Warning: moving".
\* "ang_change > threshold" with both sides doubled and squared
check_positions_agree(star, ra_new, dec_new, threshold) ==
    LET ra_diff == ra_new - star.ra
        dec_diff == dec_new - star.decl
        twice_ra == ra_diff * TwiceCos(ra_new)
    IN  4 * dec_diff * dec_diff + twice_ra * twice_ra > 4 * threshold * threshold

\* StarDescriptor.__init__, with ra and decl
StarDescriptorAt == [ra |-> NoPos, decl |-> NoPos] @@ StarDescriptor

\* the object match_star returned, with its position
DescriptorAt(m) ==
    IF m.star_id = NoId THEN StarDescriptorAt ELSE At(m.star_list, m.star_id)

\* a match_star that gives up a match it had to warn about: a new descriptor
\* is returned and the store is left as it was found
match_star_atRejectsMoved(sl, lk, ra, decl, match_threshold, mag, bs_number, hd_number, hipparcos_num, tycho_id, dr2_id) ==
    LET m == match_star(sl, lk, mag, bs_number, hd_number, hipparcos_num,
                        tycho_id, dr2_id)
        star == DescriptorAt(m)
        warned == /\ star.ra # NoPos
                  /\ check_positions_agree(star, ra, decl, match_threshold)
    IN  IF warned
        THEN [star_id |-> NoId, ids_for_deletion |-> NoFlags,
              star_list |-> sl, lookup |-> lk, moved |-> TRUE,
              calls |-> <<"match_star">>]
        ELSE [moved |-> FALSE] @@ m

\* match_star with its position arguments: "if star.ra is not None:
\* star.check_positions_agree(...)" comes last and only writes to the log
match_star_at(sl, lk, ra, decl, match_threshold, mag, bs_number, hd_number, hipparcos_num, tycho_id, dr2_id) ==
    LET m == match_star(sl, lk, mag, bs_number, hd_number, hipparcos_num,
                        tycho_id, dr2_id)
        star == DescriptorAt(m)
    IN  [moved |-> /\ star.ra # NoPos
                   /\ check_positions_agree(star, ra, decl, match_threshold)] @@ m

\* "star.ra = ra; star.decl = decl"
WithPosition(x, ra, decl) == [x EXCEPT !.ra = ra, !.decl = decl]

\* one line of read_from_tycho_1, position included
ReadTycho1LineAt(ra, decl, tycho_id, hipparcos_num, hd_number, mag) ==
    LET m == match_star_at(star_list, lookup, ra, decl, 10, mag,
                           0, hd_number, hipparcos_num, tycho_id, 0)
        hd == Granted(m.ids_for_deletion, "hd", hd_number)
        hip == Granted(m.ids_for_deletion, "hip", hipparcos_num)
        tyc == Granted(m.ids_for_deletion, "tyc", tycho_id)
        x1 == WithId(WithId(WithId(DescriptorAt(m), "tyc", tyc), "hip", hip), "hd", hd)
        x2 == [WithPosition(x1, ra, decl) EXCEPT !.mag_V = mag]
    IN  [moved |-> m.moved] @@ Commit(m, x2)

\* one line of read_from_gaia_dr1, position included
ReadGaiaDr1LineAt(ra, decl, tycho_id, hipparcos_num, mag) ==
    LET m == match_star_at(star_list, lookup, ra, decl, 1, mag,
                           0, 0, hipparcos_num, tycho_id, 0)
        hip == Granted(m.ids_for_deletion, "hip", hipparcos_num)
        tyc == Granted(m.ids_for_deletion, "tyc", tycho_id)
        x1 == WithId(WithId(DescriptorAt(m), "tyc", tyc), "hip", hip)
    IN  [moved |-> m.moved] @@ Commit(m, WithPosition(x1, ra, decl))

\* the store takes the outcome r of a line
IngestAt(r) ==
    /\ Len(r.star_list) <= MaxStars
    /\ total_count' = total_count + 1
    /\ star_list' = r.star_list
    /\ lookup' = r.lookup
    /\ aborted' = ~r.ok
    /\ moved' = r.moved
    /\ UNCHANGED <<magnitude_limit, stage, item, star_magnitudes,
                   output_star_charter, output_json>>

Tycho1LinesAt ==
    {[obs |-> Obs("tycho1", mag, 0, hd_number, hipparcos_num, tycho_id, 0),
      ra |-> ra, decl |-> decl,
      out |-> ReadTycho1LineAt(ra, decl, tycho_id, hipparcos_num, hd_number, mag)] :
        ra \in RaVals, decl \in DeclVals,
        tycho_id \in IdVals, hipparcos_num \in OptIds, hd_number \in OptIds, mag \in Mags}

GaiaDr1LinesAt ==
    {[obs |-> Obs("gaia_dr1", mag, 0, 0, hipparcos_num, tycho_id, 0),
      ra |-> ra, decl |-> decl,
      out |-> ReadGaiaDr1LineAt(ra, decl, tycho_id, hipparcos_num, mag)] :
        ra \in RaVals, decl \in DeclVals,
        tycho_id \in OptIds, hipparcos_num \in OptIds, mag \in Mags}

ReadTycho1At ==
    /\ CanRead(3) /\ catalogue' = 3
    /\ \E line \in Tycho1LinesAt : IngestAt(line.out)

ReadGaiaDr1At ==
    /\ CanRead(6) /\ catalogue' = 6
    /\ \E line \in GaiaDr1LinesAt : IngestAt(line.out)

PosNext ==
    \/ ReadTycho1At
    \/ ReadGaiaDr1At

PosSpec == Init /\ [][PosNext]_vars


\* ------------------------------ the drivers, with the sources of magnitudes

\* the bands the Hipparcos and Tycho 2 drivers record
HipparcosBands == {"mag_V", "mag_BT", "mag_VT"}

\* the slot that holds the source of a band
SourceOf(band) == band \o "_source"

\* StarDescriptor.__init__, with mag_V_source, mag_BT_source and mag_VT_source
StarDescriptorTagged ==
    [mag_V_source |-> "None", mag_BT_source |-> "None", mag_VT_source |-> "None"]
        @@ StarDescriptor

\* the object match_star returned, with its sources
DescriptorTagged(m) ==
    IF m.star_id = NoId THEN StarDescriptorTagged ELSE At(m.star_list, m.star_id)

\* a write that keeps a populated band of a record
WithBandIfEmpty(x, band, mag, source) ==
    IF mag # NoMag /\ x[band] = NoMag
    THEN [x EXCEPT ![band] = mag, ![SourceOf(band)] = source]
    ELSE x

\* "star.mag_BT = mag_bt; star.mag_BT_source = source", for a band the line has
WithBand(x, band, mag, source) ==
    IF mag # NoMag
    THEN [x EXCEPT ![band] = mag, ![SourceOf(band)] = source]
    ELSE x

\* one line of read_from_hipparcos, sources included
ReadHipparcosLineTagged(hipparcos_num, hd_number, mag, mag_bt, mag_vt) ==
    LET m == match_star(star_list, lookup, mag, 0, hd_number, hipparcos_num, 0, 0)
        hd == Granted(m.ids_for_deletion, "hd", hd_number)
        hip == Granted(m.ids_for_deletion, "hip", hipparcos_num)
        x1 == WithBand(DescriptorTagged(m), "mag_V", mag, "hipparcos")
        x2 == WithBand(WithBand(x1, "mag_BT", mag_bt, "hipparcos"),
                       "mag_VT", mag_vt, "hipparcos")
        x3 == WithId(WithId(x2, "hd", hd), "hip", hip)
    IN  Commit(m, x3)

\* one line of read_from_tycho_2, sources included
ReadTycho2LineTagged(tycho_id, hipparcos_num, mag_bt, mag_vt) ==
    LET mag == TychoV(mag_bt, mag_vt)
        m == match_star(star_list, lookup, mag, 0, 0, hipparcos_num, tycho_id, 0)
        hip == Granted(m.ids_for_deletion, "hip", hipparcos_num)
        tyc == Granted(m.ids_for_deletion, "tyc", tycho_id)
        x1 == WithId(WithId(DescriptorTagged(m), "tyc", tyc), "hip", hip)
        x2 == WithBand(WithBand(WithBand(x1, "mag_V", mag, "tycho2"),
                                "mag_BT", mag_bt, "tycho2"),
                       "mag_VT", mag_vt, "tycho2")
    IN  Commit(m, x2)

\* the lines, each with its source, the magnitudes it has for the bands, and
\* its outcome on the present store
HipparcosLinesTagged ==
    {[source |-> "hipparcos",
      bands |-> [mag_V |-> mag, mag_BT |-> bands[1], mag_VT |-> bands[2]],
      out |-> ReadHipparcosLineTagged(hipparcos_num, hd_number, mag, bands[1], bands[2])] :
        hipparcos_num \in IdVals, hd_number \in OptIds, mag \in Mags, bands \in HipBands}

Tycho2LinesTagged ==
    {[source |-> "tycho2",
      bands |-> [mag_V |-> TychoV(mag_bt, mag_vt), mag_BT |-> mag_bt, mag_VT |-> mag_vt],
      out |-> ReadTycho2LineTagged(tycho_id, hipparcos_num, mag_bt, mag_vt)] :
        tycho_id \in IdVals, hipparcos_num \in OptIds, mag_bt \in Mags, mag_vt \in Mags}

ReadHipparcosTagged ==
    /\ CanRead(2) /\ catalogue' = 2
    /\ \E line \in HipparcosLinesTagged : Ingest(line.out)

ReadTycho2Tagged ==
    /\ CanRead(4) /\ catalogue' = 4
    /\ \E line \in Tycho2LinesTagged : Ingest(line.out)

BandNext ==
    \/ ReadHipparcosTagged
    \/ ReadTycho2Tagged

BandSpec == Init /\ [][BandNext]_vars


\* ------------------------------------- the drivers, called in another order

\* one line of read_from_hipparcos or of read_from_tycho_1 with the
\* observation o, on the store st (star_list, lookup) rather than on the
\* store of the run
CycleOn(st, o) ==
    LET m == match_star(st.star_list, st.lookup, o.mag, 0, o.hd_number,
                        o.hipparcos_num, o.tycho_id, 0)
        hd == Granted(m.ids_for_deletion, "hd", o.hd_number)
        hip == Granted(m.ids_for_deletion, "hip", o.hipparcos_num)
        tyc == Granted(m.ids_for_deletion, "tyc", o.tycho_id)
        x1 == WithId(WithId(WithId(Descriptor(m), "tyc", tyc), "hip", hip), "hd", hd)
        x2 == [x1 EXCEPT !.mag_V = o.mag]
        a == add_star(WriteThrough(m.star_list, x2), m.lookup, x2, magnitude_limit)
    IN  [star_list |-> a.star_list, lookup |-> a.lookup, ok |-> a.ok]

\* the observations of the lines of the two catalogues
HipparcosObs ==
    {Obs("hipparcos", mag, 0, hd_number, hipparcos_num, 0, 0) :
        hipparcos_num \in IdVals, hd_number \in OptIds, mag \in Mags}

Tycho1Obs ==
    {Obs("tycho1", mag, 0, hd_number, hipparcos_num, tycho_id, 0) :
        tycho_id \in IdVals, hipparcos_num \in OptIds, hd_number \in OptIds, mag \in Mags}

\* the store of the run
Store == [star_list |-> star_list, lookup |-> lookup, ok |-> TRUE]

\* a line may be read whichever catalogue was read before
CanReadInAnyOrder == ~aborted /\ total_count < MaxLines

ReadHipparcosInAnyOrder ==
    /\ CanReadInAnyOrder /\ catalogue' = 2
    /\ \E o \in HipparcosObs : Ingest(CycleOn(Store, o))

ReadTycho1InAnyOrder ==
    /\ CanReadInAnyOrder /\ catalogue' = 3
    /\ \E o \in Tycho1Obs : Ingest(CycleOn(Store, o))

OrderNext ==
    \/ ReadHipparcosInAnyOrder
    \/ ReadTycho1InAnyOrder

OrderSpec == Init /\ [][OrderNext]_vars


\* ---------------------------------------------------------------- claims

\* the lines the run may read next, in catalogue order
NextLines ==
    (IF CanRead(1) THEN YbscLines ELSE {}) \cup
    (IF CanRead(2) THEN HipparcosLines ELSE {}) \cup
    (IF CanRead(3) THEN Tycho1Lines ELSE {}) \cup
    (IF CanRead(4) THEN Tycho2Lines ELSE {}) \cup
    (IF CanRead(5) THEN HipparcosNewLines ELSE {}) \cup
    (IF CanRead(6) THEN GaiaDr1Lines ELSE {}) \cup
    (IF CanRead(7) THEN GaiaDr2Lines ELSE {})

\* those of them whose driver calls match_star
MatchLines == {l \in NextLines : l.obs.source \notin {"bright_stars", "hipparcos_new"}}

\* the identifier of kind cat_name a line presents to match_star
ObsId(o, cat_name) ==
    CASE cat_name = "hd" -> o.hd_number
      [] cat_name = "bs" -> o.bs_number
      [] cat_name = "hip" -> o.hipparcos_num
      [] cat_name = "tyc" -> o.tycho_id
      [] cat_name = "dr2" -> o.dr2_id

StoreUids == 0..(Len(star_list) - 1)

\* C1: identifier uniqueness.  Between ingestion cycles every registry entry
\* names one record of the store, and no two records of the store carry the
\* same non-empty identifier of one kind.  (A run whose add_star assertion
\* failed has no state after the cycle.)
C1_IdentifierUniqueness ==
    ~aborted =>
        /\ \A c \in CatSet : \A v \in IdVals :
              lookup[c][v] = NoId \/ lookup[c][v] \in StoreUids
        /\ \A c \in CatSet : \A i, j \in 1..Len(star_list) :
              (i # j /\ star_list[i][FieldOf(c)] # 0)
                  => star_list[i][FieldOf(c)] # star_list[j][FieldOf(c)]

\* C1 witness: an identifier has changed hands: two records, the registry of
\* some kind names the second one for a value, and the first record, whose
\* field of that kind is now empty, is still named by a registry of another kind
C1_Witness ==
    /\ ~aborted
    /\ Len(star_list) = 2
    /\ \E c \in CatSet : \E v \in IdVals :
          /\ lookup[c][v] = 1
          /\ star_list[2][FieldOf(c)] = v
          /\ star_list[1][FieldOf(c)] = 0
          /\ star_list[2].mag_V # NoMag /\ star_list[1].mag_V # NoMag
          /\ star_list[2].mag_V < star_list[1].mag_V

C6_FieldsAreRegistered ==
    ~aborted =>
        \A c \in CatSet : \A i \in 1..Len(star_list) :
            star_list[i][FieldOf(c)] # 0
                => lookup[c][star_list[i][FieldOf(c)]] = star_list[i].id

\* C6 witness: a binding has been taken away from a record and its field is
\* cleared: the registry names the second record for a value that the first
\* record, which still carries another identifier, does not carry
C6_Witness ==
    /\ ~aborted
    /\ Len(star_list) = 2
    /\ \E c \in CatSet : \E v \in IdVals :
          /\ lookup[c][v] = 1
          /\ star_list[2][FieldOf(c)] = v
          /\ star_list[1][FieldOf(c)] = 0
          /\ \E c2 \in CatSet \ {c} : star_list[1][FieldOf(c2)] # 0

\* C8: ID stability and permanence.  No step changes the ID of a record of
\* the store, moves it, or shortens the store.
C8_IdsAreStable ==
    [][/\ Len(star_list') >= Len(star_list)
       /\ \A i \in 1..Len(star_list) : star_list'[i].id = star_list[i].id]_vars

\* C8 witness: a record admitted by the bright-star driver (only it writes the
\* BS number) has since been resolved to and written by a later driver (only
\* those write a Hipparcos number), and keeps ID 0
C8_Witness ==
    /\ Len(star_list) >= 1
    /\ star_list[1].id = 0
    /\ star_list[1].names_bs_num # 0
    /\ star_list[1].names_hip_num # 0
    /\ total_count >= 2

\* C9: record IDs are dense and zero-based: the record at position i (from
\* 0) has ID i, and a step only appends records, each with the next ID
C9_IdsAreDense ==
    /\ [](\A i \in 1..Len(star_list) : star_list[i].id = i - 1)
    /\ [][\A i \in (Len(star_list) + 1)..Len(star_list') :
             /\ i = Len(star_list) + 1
             /\ star_list'[i].id = Len(star_list)]_vars

\* C9 witness: two records have been admitted
C9_Witness == Len(star_list) = 2 /\ star_list[2].id = 1

\* C10: Hipparcos match voiding.  With no Gaia DR2 or Tycho match and the
\* Hipparcos number bound to record R, match_star resolves to R unless R
\* carries a non-empty Tycho identifier other than the observation's
\* non-empty one; then R is discarded and the outcome is the record the HD
\* number is bound to, or a new record.
C10_HipVoiding ==
    \A hip \in IdVals : \A tyc \in OptIds : \A hd \in OptIds : \A dr2 \in OptIds :
        (/\ ~Bound(lookup["dr2"], dr2)
         /\ ~Bound(lookup["tyc"], tyc)
         /\ Bound(lookup["hip"], hip))
        => LET r == lookup["hip"][hip]
               r_tyc == At(star_list, r).names_tycho_id
               got == MatchCandidate(star_list, lookup, hd, hip, tyc, dr2)
           IN  IF r_tyc # 0 /\ tyc # 0 /\ r_tyc # tyc
               THEN /\ got # r
                    /\ got \in {NoId} \cup {lookup["hd"][h] : h \in {hd} \ {0}}
               ELSE got = r

\* C10 witness: a Hipparcos match is voided and the HD rule then resolves to
\* another record
C10_Witness ==
    \E hip \in IdVals : \E tyc \in IdVals : \E hd \in IdVals :
        /\ ~Bound(lookup["tyc"], tyc)
        /\ Bound(lookup["hip"], hip)
        /\ At(star_list, lookup["hip"][hip]).names_tycho_id \notin {0, tyc}
        /\ Bound(lookup["hd"], hd)
        /\ MatchCandidate(star_list, lookup, hd, hip, tyc, 0) = lookup["hd"][hd]
        /\ lookup["hd"][hd] # lookup["hip"][hip]

\* the V magnitude of the record with ID uid
VMag(sl, uid) == At(sl, uid).mag_V

\* line l presents, for kind c, a value that the registry binds to a record
\* other than the one match_star resolves the line to
Conflict(l, c) ==
    /\ ObsId(l.obs, c) # 0
    /\ lookup[c][ObsId(l.obs, c)] # NoId
    /\ lookup[c][ObsId(l.obs, c)] # l.out.star_id

\* C2 as claimed: when a cycle presents identifier v for record C while the
\* registry binds v to another record R, and both have known, different V
\* magnitudes, then after the cycle the one with the lower V magnitude is the
\* sole owner of v (registry and field) and the other's field is empty
C2_LowerVMagnitudeOwns ==
    \A l \in MatchLines : \A c \in CatSet :
        LET v == ObsId(l.obs, c)
            r == lookup[c][v]
            cand == l.out.star
            inc == At(l.out.star_list, r)
        IN  (/\ Conflict(l, c)
             /\ ~l.out.skipped
             /\ cand.mag_V # NoMag
             /\ VMag(star_list, r) # NoMag
             /\ cand.mag_V # VMag(star_list, r))
            => IF cand.mag_V < VMag(star_list, r)
               THEN /\ cand.id # NoId
                    /\ l.out.lookup[c][v] = cand.id
                    /\ cand[FieldOf(c)] = v
                    /\ inc[FieldOf(c)] = 0
               ELSE /\ l.out.lookup[c][v] = r
                    /\ inc[FieldOf(c)] = v
                    /\ cand[FieldOf(c)] = 0

\* C3 as claimed: in a conflict whose incumbent has a V magnitude lower than
\* or equal to the challenger's magnitude, the registry entry and the
\* incumbent's field stay, the rejection flag is true, and the challenger
\* does not carry the value after the cycle
C3_IncumbentAtLeastAsBrightKeeps ==
    \A l \in MatchLines : \A c \in CatSet :
        LET v == ObsId(l.obs, c)
            r == lookup[c][v]
        IN  (/\ Conflict(l, c)
             /\ VMag(star_list, r) # NoMag
             /\ VMag(star_list, r) <= l.obs.mag)
            => /\ l.out.lookup[c][v] = r
               /\ At(l.out.star_list, r)[FieldOf(c)] = At(star_list, r)[FieldOf(c)]
               /\ l.out.ids_for_deletion[c] = "True"
               /\ l.out.star[FieldOf(c)] # v

\* C3 as amended: the same, for an incumbent whose V magnitude is strictly
\* lower than the challenger's magnitude
C3_BrighterIncumbentKeeps ==
    \A l \in MatchLines : \A c \in CatSet :
        LET v == ObsId(l.obs, c)
            r == lookup[c][v]
        IN  (/\ Conflict(l, c)
             /\ VMag(star_list, r) # NoMag
             /\ VMag(star_list, r) < l.obs.mag)
            => /\ l.out.lookup[c][v] = r
               /\ At(l.out.star_list, r)[FieldOf(c)] = At(star_list, r)[FieldOf(c)]
               /\ l.out.ids_for_deletion[c] = "True"
               /\ l.out.star[FieldOf(c)] # v

\* C3 witness: a Tycho 1 line presents an HD number owned by a strictly
\* brighter record and resolves to another record
C3_Witness ==
    \E l \in MatchLines :
        /\ l.obs.source = "tycho1"
        /\ Conflict(l, "hd")
        /\ At(star_list, lookup["hd"][l.obs.hd_number]).names_hd_num = l.obs.hd_number
        /\ VMag(star_list, lookup["hd"][l.obs.hd_number]) # NoMag
        /\ VMag(star_list, lookup["hd"][l.obs.hd_number]) < l.obs.mag
        /\ l.out.ids_for_deletion["hd"] = "True"
        /\ l.out.star.id # NoId

\* C4 as claimed: in a conflict, a challenger record without V magnitude does
\* not get the binding, whatever the incumbent's magnitude
C4_NoVMagnitudeNoBinding ==
    \A l \in MatchLines : \A c \in CatSet :
        LET v == ObsId(l.obs, c)
            r == lookup[c][v]
        IN  (/\ Conflict(l, c)
             /\ l.out.star.mag_V = NoMag)
            => /\ l.out.lookup[c][v] = r
               /\ l.out.star[FieldOf(c)] # v

\* the records the output stage ranges over: "enumerate(star_data.star_list)"
OutputRecords(sl) == {sl[i] : i \in 1..Len(sl)}

\* a descriptor has a populated magnitude at or below the configured limit
WithinLimit(x) ==
    \E f \in {"mag_V", "mag_G", "mag_VT", "mag_BT", "mag_BP", "mag_RP"} :
        x[f] # NoMag /\ x[f] <= magnitude_limit

\* C7: admission filter.  A line whose descriptor is new gets an ID (the
\* next one) if and only if no limit is configured or one of its populated
\* magnitudes is at or below the limit; a descriptor that is turned away
\* has no ID, is not in the store the outputs are written from, and no
\* registry has gained an entry by its line
C7_AdmissionFilter ==
    \A l \in NextLines :
        (l.out.star_id = NoId /\ ~l.out.skipped /\ l.out.ok)
        => /\ l.out.star.id # NoId
                <=> (magnitude_limit = NoLimit \/ WithinLimit(l.out.star))
           /\ l.out.star.id # NoId
                => /\ l.out.star.id = Len(star_list)
                   /\ l.out.star \in OutputRecords(l.out.star_list)
           /\ l.out.star.id = NoId
                => /\ Len(l.out.star_list) = Len(star_list)
                   /\ l.out.star \notin OutputRecords(l.out.star_list)
                   /\ \A c \in CatSet : \A v \in IdVals :
                         l.out.lookup[c][v] \in {lookup[c][v], NoId}

\* C7 witness: with a limit configured and a record in the store, one line
\* the run may read next is turned away with identifiers and magnitudes on
\* it, and another, whose magnitude is exactly the limit, is admitted
C7_Witness ==
    /\ magnitude_limit # NoLimit
    /\ Len(star_list) >= 1
    /\ \E l \in NextLines :
          /\ l.out.star_id = NoId /\ ~l.out.skipped /\ l.out.ok
          /\ l.out.star.id = NoId
          /\ l.out.star.mag_V # NoMag
          /\ l.out.star.names_hip_num # 0
    /\ \E l \in NextLines :
          /\ l.out.star_id = NoId /\ ~l.out.skipped /\ l.out.ok
          /\ l.out.star.id = Len(star_list)
          /\ l.out.star.mag_V = magnitude_limit

\* the matching reaches the HD rule: no Gaia DR2 hit, no Tycho hit, and the
\* Hipparcos number unbound or its owner discarded
ReachesHdRule(hip, tyc, dr2) ==
    /\ ~Bound(lookup["dr2"], dr2)
    /\ ~Bound(lookup["tyc"], tyc)
    /\ Bound(lookup["hip"], hip)
          => LET r_tyc == At(star_list, lookup["hip"][hip]).names_tycho_id
             IN  r_tyc # 0 /\ tyc # 0 /\ r_tyc # tyc

\* C11: Henry-Draper match voiding.  When the matching reaches the HD rule
\* and the HD number is bound to record R, match_star resolves to R unless R
\* carries a non-empty Hipparcos number or Tycho identifier other than the
\* observation's non-empty one; then it returns a new record.
C11_HdVoiding ==
    \A hd \in IdVals : \A hip \in OptIds : \A tyc \in OptIds : \A dr2 \in OptIds :
        (ReachesHdRule(hip, tyc, dr2) /\ Bound(lookup["hd"], hd))
        => LET r == lookup["hd"][hd]
               r_hip == At(star_list, r).names_hip_num
               r_tyc == At(star_list, r).names_tycho_id
               got == MatchCandidate(star_list, lookup, hd, hip, tyc, dr2)
           IN  IF \/ r_hip # 0 /\ hip # 0 /\ r_hip # hip
                  \/ r_tyc # 0 /\ tyc # 0 /\ r_tyc # tyc
               THEN got = NoId
               ELSE got = r

\* C11 witness: an HD owner is discarded for its Hipparcos number alone (the
\* observation's Hipparcos number is unbound), and another observation with
\* the same HD number resolves to it
C11_Witness ==
    \E hd \in IdVals : \E hip \in IdVals :
        /\ Bound(lookup["hd"], hd)
        /\ ~Bound(lookup["hip"], hip)
        /\ At(star_list, lookup["hd"][hd]).names_hip_num \notin {0, hip}
        /\ At(star_list, lookup["hd"][hd]).names_tycho_id = 0
        /\ MatchCandidate(star_list, lookup, hd, hip, 0, 0) = NoId
        /\ MatchCandidate(star_list, lookup, hd, 0, 0, 0) = lookup["hd"][hd]

\* the match_star call of a line, on the present store
MatchOf(o) ==
    match_star(star_list, lookup, o.mag, o.bs_number, o.hd_number,
               o.hipparcos_num, o.tycho_id, o.dr2_id)

\* kind c ("hip" or "hd") of observation o names a candidate that match_star
\* discards
Voided(o, c) ==
    IF c = "hip"
    THEN /\ ~Bound(lookup["dr2"], o.dr2_id)
         /\ ~Bound(lookup["tyc"], o.tycho_id)
         /\ Bound(lookup["hip"], o.hipparcos_num)
         /\ MatchCandidate(star_list, lookup, 0, o.hipparcos_num, o.tycho_id, o.dr2_id)
                # lookup["hip"][o.hipparcos_num]
    ELSE /\ ReachesHdRule(o.hipparcos_num, o.tycho_id, o.dr2_id)
         /\ Bound(lookup["hd"], o.hd_number)
         /\ MatchCandidate(star_list, lookup, o.hd_number, o.hipparcos_num,
                           o.tycho_id, o.dr2_id) # lookup["hd"][o.hd_number]

\* the five identifier fields of a record
IdFields(x) == [c \in CatSet |-> x[FieldOf(c)]]

\* C12 as claimed: when match_star discards a Hipparcos or HD candidate, the
\* registry binding of that identifier and the identifier fields of the
\* discarded record are, when match_star returns, what they were at the call
C12_VoidingChangesNothing ==
    \A l \in MatchLines : \A c \in {"hip", "hd"} :
        Voided(l.obs, c)
        => LET v == ObsId(l.obs, c)
               r == lookup[c][v]
               m == MatchOf(l.obs)
           IN  /\ m.lookup[c][v] = r
               /\ IdFields(At(m.star_list, r)) = IdFields(At(star_list, r))

\* C12 as amended: the discarded record keeps the binding and its field of
\* that kind exactly when its V magnitude is known and strictly below the
\* observation's magnitude; otherwise match_star deletes the binding and
\* empties that field.  Its other identifier fields are unchanged or emptied,
\* the latter only for a kind of which the observation presents a value
\* bound to that record
C12_VoidedKeepsOnlyIfBrighter ==
    \A l \in MatchLines : \A c \in {"hip", "hd"} :
        Voided(l.obs, c)
        => LET v == ObsId(l.obs, c)
               r == lookup[c][v]
               m == MatchOf(l.obs)
               before == At(star_list, r)
               after == At(m.star_list, r)
           IN  /\ IF before.mag_V # NoMag /\ before.mag_V < l.obs.mag
                  THEN /\ m.lookup[c][v] = r
                       /\ after[FieldOf(c)] = before[FieldOf(c)]
                  ELSE /\ m.lookup[c][v] = NoId
                       /\ after[FieldOf(c)] = 0
               /\ \A c2 \in CatSet :
                     \/ after[FieldOf(c2)] = before[FieldOf(c2)]
                     \/ /\ after[FieldOf(c2)] = 0
                        /\ ObsId(l.obs, c2) # 0
                        /\ lookup[c2][ObsId(l.obs, c2)] = r

\* C12 witness: a line whose Hipparcos candidate is discarded while that
\* candidate is strictly brighter, and a line whose HD candidate is discarded
\* while that candidate is not
C12_Witness ==
    /\ \E l \in MatchLines :
          /\ Voided(l.obs, "hip")
          /\ VMag(star_list, lookup["hip"][l.obs.hipparcos_num]) # NoMag
          /\ VMag(star_list, lookup["hip"][l.obs.hipparcos_num]) < l.obs.mag
          /\ MatchOf(l.obs).ids_for_deletion["hip"] = "True"
    /\ \E l \in MatchLines :
          /\ Voided(l.obs, "hd")
          /\ VMag(star_list, lookup["hd"][l.obs.hd_number]) >= l.obs.mag
          /\ MatchOf(l.obs).ids_for_deletion["hd"] = "False"

\* the observation takes identifier v of kind c from its registry owner:
\* the value is presented, bound to a record other than the one match_star
\* resolves to, and that record is not strictly brighter
Taken(o, star_id, c, v) ==
    /\ v # 0
    /\ v = ObsId(o, c)
    /\ lookup[c][v] \notin {NoId, star_id}
    /\ ~(/\ VMag(star_list, lookup[c][v]) # NoMag
         /\ VMag(star_list, lookup[c][v]) < o.mag)

\* a record without its identifier fields
Rest(x) == [f \in (DOMAIN x) \ {FieldOf(c) : c \in CatSet} |-> x[f]]

\* C13 as claimed: match_star leaves the store and the five registries as
\* they were
C13_MatchStarChangesNothing ==
    \A l \in MatchLines :
        /\ MatchOf(l.obs).star_list = star_list
        /\ MatchOf(l.obs).lookup = lookup

\* C13 as amended: match_star adds and moves no record and changes no ID and
\* no magnitude; it deletes exactly the registry entries the observation
\* takes from a not strictly brighter owner and empties exactly that owner's
\* field of that kind; it binds nothing.  add_star then only adds bindings,
\* each of an identifier of the committed record to that record, and changes
\* no other record
C13_MatchStarOnlyTakesAway ==
    \A l \in MatchLines :
        LET m == MatchOf(l.obs)
        IN  /\ Len(m.star_list) = Len(star_list)
            /\ \A i \in 1..Len(star_list) :
                  /\ Rest(m.star_list[i]) = Rest(star_list[i])
                  /\ \A c \in CatSet :
                        m.star_list[i][FieldOf(c)] =
                            IF /\ Taken(l.obs, m.star_id, c, ObsId(l.obs, c))
                               /\ lookup[c][ObsId(l.obs, c)] = i - 1
                            THEN 0
                            ELSE star_list[i][FieldOf(c)]
            /\ \A c \in CatSet : \A v \in IdVals :
                  m.lookup[c][v] =
                      IF Taken(l.obs, m.star_id, c, v) THEN NoId ELSE lookup[c][v]
            /\ \A c \in CatSet : \A v \in IdVals :
                  \/ l.out.lookup[c][v] = m.lookup[c][v]
                  \/ /\ m.lookup[c][v] = NoId
                     /\ l.out.star.id # NoId
                     /\ l.out.lookup[c][v] = l.out.star.id
                     /\ l.out.star[FieldOf(c)] = v
            /\ \A i \in 1..Len(star_list) :
                  i - 1 # m.star_id => l.out.star_list[i] = m.star_list[i]

\* C13 witness: match_star resolves a line to a record of the store and
\* takes an identifier from another one, whose V magnitude is known
C13_Witness ==
    \E l \in MatchLines : \E c \in CatSet :
        LET m == MatchOf(l.obs)
        IN  /\ m.star_id # NoId
            /\ Taken(l.obs, m.star_id, c, ObsId(l.obs, c))
            /\ VMag(star_list, lookup[c][ObsId(l.obs, c)]) # NoMag
            /\ m.lookup[c][ObsId(l.obs, c)] = NoId
            /\ m.star_list # star_list
            /\ l.out.lookup[c][ObsId(l.obs, c)] = m.star_id

\* the scenario's first two lines have been read: a bright-star line (BS 1,
\* no HD number, the brighter magnitude) and a Hipparcos line (HIP 1, HD 1,
\* the same magnitude) have made records 0 and 1
ScenarioStore ==
    /\ Len(star_list) = 2
    /\ total_count = 2
    /\ catalogue = 2
    /\ star_list[1] = [StarDescriptor EXCEPT !.id = 0, !.names_bs_num = 1,
                                             !.mag_V = MagStep]
    /\ star_list[2] = [StarDescriptor EXCEPT !.id = 1, !.names_hip_num = 1,
                                             !.names_hd_num = 1, !.mag_V = MagStep]
    /\ lookup = [EmptyLookup EXCEPT !["bs"][1] = 0, !["hip"][1] = 1, !["hd"][1] = 1]

\* the scenario's third line: a Tycho 1 line with HD 1, no Hipparcos number
\* and the fainter magnitude
ScenarioLines ==
    {l \in Tycho1Lines : /\ l.obs.hd_number = 1
                         /\ l.obs.hipparcos_num = 0
                         /\ l.obs.mag = MaxMag * MagStep}

\* C14 as claimed: the third line's record does not carry HD 1, and the
\* record of the second line still carries HD 1 and is its registry owner
C14_ThirdRecordWithoutHd ==
    ScenarioStore
    => \A l \in ScenarioLines :
          /\ l.out.star.names_hd_num # 1
          /\ l.out.star_list[2].names_hd_num = 1
          /\ l.out.lookup["hd"][1] = 1

\* C14 as amended: the third line is matched by its HD number to the record
\* of the second line; nothing is rejected and no record is made; that
\* record keeps HD 1 and its registry entry, takes the Tycho identifier and
\* has its V magnitude overwritten with the fainter one
C14_ThirdLineMerges ==
    ScenarioStore
    => \A l \in ScenarioLines :
          /\ l.out.star_id = 1
          /\ l.out.ids_for_deletion = NoFlags
          /\ l.out.star_list =
                <<star_list[1],
                  [star_list[2] EXCEPT !.names_tycho_id = l.obs.tycho_id,
                                       !.mag_V = MaxMag * MagStep]>>
          /\ l.out.star = l.out.star_list[2]
          /\ l.out.lookup = [lookup EXCEPT !["tyc"][l.obs.tycho_id] = 1]

\* C14 witness: the store of the scenario, with its third line to be read
C14_Witness ==
    /\ ScenarioStore
    /\ CanRead(3)
    /\ \E l \in ScenarioLines : l.out.star.names_hd_num = 1 /\ l.out.star.id = 1

\* the registries as the last add_star of line l finds them: as match_star
\* leaves them, or, in the bright-star driver, as they are
PreCommit(l) ==
    IF l.obs.source \in {"bright_stars", "hipparcos_new"}
    THEN lookup
    ELSE MatchOf(l.obs).lookup

\* an identifier of descriptor x is bound, in registries pre, to another record
BoundElsewhere(pre, x) ==
    \E c \in CatSet :
        /\ x[FieldOf(c)] # 0
        /\ pre[c][x[FieldOf(c)]] \notin {NoId, x.id}

\* C15: registry bind contract.  add_star writes a registry entry only for
\* an identifier of the committed record that is unbound or bound to that
\* record; it fails by assertion exactly when an identifier of the record
\* is bound to another record, and then too every existing binding is what
\* it was; when it does not fail every identifier of the record is bound to it
C15_BindContract ==
    \A l \in NextLines :
        LET pre == PreCommit(l)
            x == l.out.star
        IN  /\ \A c \in CatSet : \A v \in IdVals :
                  l.out.lookup[c][v] # pre[c][v]
                      => /\ pre[c][v] = NoId
                         /\ l.out.lookup[c][v] = x.id
                         /\ x.id # NoId
                         /\ x[FieldOf(c)] = v
            /\ ~l.out.skipped
                  => /\ ~l.out.ok <=> (x.id # NoId /\ BoundElsewhere(pre, x))
                     /\ (l.out.ok /\ x.id # NoId)
                           => \A c \in CatSet :
                                 x[FieldOf(c)] # 0
                                     => l.out.lookup[c][x[FieldOf(c)]] = x.id

\* C15 witness: the assertion has failed on the BS number of a record whose
\* HD number add_star had just bound; the BS number is still bound to the
\* first record
C15_Witness ==
    /\ aborted
    /\ Len(star_list) = 2
    /\ star_list[1].names_bs_num = star_list[2].names_bs_num
    /\ lookup["bs"][star_list[2].names_bs_num] = 0
    /\ star_list[2].names_hd_num # 0
    /\ lookup["hd"][star_list[2].names_hd_num] = 1

\* C16 as claimed: the assertion of add_star never fails
C16_NeverAborts == ~aborted


\* C17 (distance derivation): once the distances are worked out, every record
\* of the store has either a parallax above 1e-7 mas and a distance, or
\* neither a parallax nor a distance.
C17_ParallaxWithDistanceOrNeither ==
    stage # "distances" =>
        \A i \in 1..Len(star_list) :
            \/ /\ star_list[i].parallax # NoParallax
               /\ star_list[i].parallax > MinParallax
               /\ star_list[i].dist # NoDist
            \/ /\ star_list[i].parallax = NoParallax
               /\ star_list[i].dist = NoDist

\* a record has come through the distance loop with a parallax and a distance
C17_Witness ==
    /\ stage # "distances"
    /\ \E i \in 1..Len(star_list) :
           star_list[i].parallax # NoParallax /\ star_list[i].dist # NoDist

\* rows is in non-decreasing order of reference magnitude, rows of equal
\* reference magnitude in non-decreasing order of right ascension
InOutputOrder(rows) ==
    \A i \in 1..(Len(rows) - 1) :
        \/ rows[i].mag_reference < rows[i + 1].mag_reference
        \/ /\ rows[i].mag_reference = rows[i + 1].mag_reference
           /\ rows[i].ra <= rows[i + 1].ra

\* C18 (output ordering): the rows of the text output and of the JSON output
\* are in non-decreasing order of reference magnitude, rows of equal reference
\* magnitude in non-decreasing order of right ascension, and the text output
\* holds, in the same order, the JSON rows brighter than magnitude 14.
C18_OutputOrdering ==
    /\ InOutputOrder(output_star_charter)
    /\ InOutputOrder(output_json)
    /\ output_star_charter =
           SelectSeq(output_json, LAMBDA row : row.mag_reference < mag_limit)

\* everything is written; two rows of equal reference magnitude stand in the
\* order of their right ascensions, against their order in the store, and a
\* fainter row follows a brighter one
C18_Witness ==
    /\ stage = "output" /\ item = Len(star_magnitudes)
    /\ Len(output_star_charter) >= 2
    /\ \E i \in 1..(Len(output_json) - 1) :
           /\ output_json[i].mag_reference = output_json[i + 1].mag_reference
           /\ output_json[i].ra < output_json[i + 1].ra
           /\ output_json[i].hd_num > output_json[i + 1].hd_num
    /\ \E i \in 1..(Len(output_json) - 1) :
           output_json[i].mag_reference < output_json[i + 1].mag_reference

\* the reference magnitudes listed in star_magnitudes for record uid
ListedMagnitudes(uid) ==
    {star_magnitudes[k][2] :
        k \in {j \in 1..Len(star_magnitudes) : star_magnitudes[j][1] = uid}}

\* the rows written for the record at position i of the store
RowsOf(i) ==
    {k \in 1..Len(output_json) : output_json[k].hd_num = i} \cup
    {k \in 1..Len(output_star_charter) : output_star_charter[k].hd_num = i}

\* C19 (reference magnitude selection): once star_magnitudes is built, a record
\* with a V magnitude is listed with that magnitude, whatever its Gaia
\* photometry; a record without V and with G, BP and RP is listed with the
\* colour-corrected estimate; a record without V and with G but not both BP and
\* RP is listed with G + 0.0176; a record with neither V nor G is not listed
\* and has no output row.
C19_ReferenceMagnitudeSelection ==
    stage # "distances" =>
        \A i \in 1..Len(star_list) :
            LET star == star_list[i]
                br == star.mag_BP - star.mag_RP
            IN  IF star.mag_V # NoMag
                THEN ListedMagnitudes(i - 1) = {star.mag_V * RefScale}
                ELSE IF star.mag_G # NoMag /\ star.mag_BP # NoMag /\ star.mag_RP # NoMag
                THEN ListedMagnitudes(i - 1) =
                         {star.mag_G * RefScale + 1760000 + 686 * br
                              + 1732 * ((br * br) \div 100)}
                ELSE IF star.mag_G # NoMag
                THEN ListedMagnitudes(i - 1) = {star.mag_G * RefScale + 1760000}
                ELSE ListedMagnitudes(i - 1) = {} /\ RowsOf(i) = {}

\* everything is written, for a store that holds a record with V and Gaia
\* photometry, a record with G and BP only, and a record with BP and RP only
C19_Witness ==
    /\ stage = "output" /\ item = Len(star_magnitudes)
    /\ Len(output_json) = 2
    /\ \E i \in 1..Len(star_list) :
           star_list[i].mag_V # NoMag /\ star_list[i].mag_G # NoMag
    /\ \E i \in 1..Len(star_list) :
           /\ star_list[i].mag_V = NoMag /\ star_list[i].mag_G # NoMag
           /\ star_list[i].mag_BP # NoMag /\ star_list[i].mag_RP = NoMag
    /\ \E i \in 1..Len(star_list) :
           /\ star_list[i].mag_V = NoMag /\ star_list[i].mag_G = NoMag
           /\ star_list[i].mag_BP # NoMag /\ ~NoCatalogueIds(star_list[i])

\* the JSON rows of records without V magnitude and with G, BP and RP
ColourCorrectedRows ==
    {k \in 1..Len(output_json) :
        /\ output_json[k].mag_list[1] = NoMag
        /\ \A b \in 2..4 : output_json[k].mag_list[b] # NoMag}

\* C20, as the specification states it: the reference magnitude of a record
\* without V magnitude and with G, BP and RP is
\* G + 0.0176 + 0.1732 (BP-RP) + 0.006860 (BP-RP)^2.
C20_LinearCoefficientIsLarger ==
    \A k \in ColourCorrectedRows :
        LET m == output_json[k].mag_list
            br == m[3] - m[4]
        IN  output_json[k].mag_reference =
                m[2] * RefScale + 1760000 + 17320 * br
                    + (686 * ((br * br) \div 100)) \div 10

\* C20, amended: the reference magnitude of a record without V magnitude and
\* with G, BP and RP is G + 0.0176 + 0.006860 (BP-RP) + 0.1732 (BP-RP)^2: the
\* coefficient 0.006860 multiplies the linear colour term and 0.1732 the
\* squared colour term.
C20_QuadraticCoefficientIsLarger ==
    \A k \in ColourCorrectedRows :
        LET m == output_json[k].mag_list
            br == m[3] - m[4]
        IN  output_json[k].mag_reference =
                m[2] * RefScale + 1760000 + 686 * br
                    + 1732 * ((br * br) \div 100)

\* rows are written for a record with BP - RP = 0.5 and for a record with
\* BP - RP = -2, colours at which the two expressions differ
C20_Witness ==
    /\ \E k \in ColourCorrectedRows :
           output_json[k].mag_list[3] - output_json[k].mag_list[4] = 500
    /\ \E k \in ColourCorrectedRows :
           output_json[k].mag_list[3] - output_json[k].mag_list[4] = -2000

\* what match_star hands back and leaves behind, the log apart
Outcome(m) ==
    [star_id |-> m.star_id, ids_for_deletion |-> m.ids_for_deletion,
     star_list |-> m.star_list, lookup |-> m.lookup]

\* C21 (the position check is advisory): on every store the run may read
\* another line on, and for every observation, match_star returns the same
\* record and the same rejection flags and leaves the same records and
\* registries, whatever the right ascension, the declination and the
\* match_threshold it is called with.
C21_PositionCheckIsAdvisory ==
    (~aborted /\ total_count < MaxLines) =>
        \A hd_number \in OptIds, hipparcos_num \in OptIds, tycho_id \in OptIds, mag \in Mags :
            LET here == Outcome(match_star_at(star_list, lookup, 0, 0, 1, mag,
                                              0, hd_number, hipparcos_num, tycho_id, 0))
            IN  \A ra \in RaVals, decl \in DeclVals, match_threshold \in Thresholds :
                    Outcome(match_star_at(star_list, lookup, ra, decl, match_threshold,
                                          mag, 0, hd_number, hipparcos_num, tycho_id, 0))
                        = here

\* the second line read was matched to the record of the first, match_star
\* logged the warning, and the record stands at the second line's position,
\* 60 degrees from where the first line put it
C21_Witness ==
    /\ moved /\ ~aborted
    /\ total_count = 2 /\ Len(star_list) = 1
    /\ star_list[1].ra = 6000
    /\ \E l \in Tycho1LinesAt :
           /\ l.ra = 0 /\ l.out.star_id = 0 /\ l.out.moved


\* C22, as the specification states it: every line of every driver makes one
\* match_star call and then one add_star call.
C22_OneMatchOneCommit ==
    \A l \in NextLines : l.out.calls = <<"match_star", "add_star">>

\* C22, amended: a line makes at most one match_star call, before any add_star
\* call.  The bright-star driver and the new Hipparcos reduction make none and
\* call add_star once.  The Gaia DR2 driver calls match_star once and then
\* add_star not at all when its DR2 identifier is rejected, twice when
\* match_star returned a new descriptor, once otherwise.  Every other driver
\* calls match_star once and then add_star once.
C22_CallsOfALine ==
    \A l \in NextLines :
        l.out.calls =
            IF l.obs.source \in {"bright_stars", "hipparcos_new"}
            THEN <<"add_star">>
            ELSE IF l.obs.source = "gaia_dr2"
            THEN IF l.out.ids_for_deletion["dr2"] = "True"
                 THEN <<"match_star">>
                 ELSE IF l.out.star_id = NoId
                 THEN <<"match_star", "add_star", "add_star">>
                 ELSE <<"match_star", "add_star">>
            ELSE <<"match_star", "add_star">>

\* a store on which the Gaia DR2 driver may read a line that is dropped after
\* match_star, its DR2 identifier belonging to a brighter record, and a line
\* that is merged into a record of the store
C22_Witness ==
    /\ \E l \in NextLines :
           /\ l.obs.source = "gaia_dr2"
           /\ l.out.skipped
           /\ l.out.calls = <<"match_star">>
    /\ \E l \in NextLines :
           /\ l.obs.source = "gaia_dr2"
           /\ l.out.star_id # NoId
           /\ l.out.calls = <<"match_star", "add_star">>

\* the lines the run of BandSpec may read next
NextLinesTagged ==
    (IF CanRead(2) THEN HipparcosLinesTagged ELSE {}) \cup
    (IF CanRead(4) THEN Tycho2LinesTagged ELSE {})

OwnerOf(st, v, a, b) ==
    LET uid == st.lookup["hd"][v]
    IN  IF uid = NoId THEN "none"
        ELSE IF uid = st.lookup["hip"][a.hipparcos_num] THEN "a"
        ELSE IF uid = st.lookup["tyc"][b.tycho_id] THEN "b"
        ELSE "other"

\* lines a and b have made two records
TwoRecords(st, a, b) ==
    /\ st.ok
    /\ Len(st.star_list) = 2
    /\ st.lookup["hip"][a.hipparcos_num] # NoId
    /\ st.lookup["tyc"][b.tycho_id] # NoId
    /\ st.lookup["hip"][a.hipparcos_num] # st.lookup["tyc"][b.tycho_id]

\* a Hipparcos line a and a Tycho 1 line b with the same HD number make two
\* records from store st in either order, and the HD number ends with the record
\* of the one when a is read first and with that of the other when b is
OrderDecides(st, a, b) ==
    /\ a.hd_number # 0 /\ a.hd_number = b.hd_number
    /\ LET ab == CycleOn(CycleOn(st, a), b)
           ba == CycleOn(CycleOn(st, b), a)
       IN  /\ TwoRecords(ab, a, b)
           /\ TwoRecords(ba, a, b)
           /\ OwnerOf(ab, a.hd_number, a, b) # OwnerOf(ba, a.hd_number, a, b)

\* C24 (ingestion order is load-bearing): on the empty store there are a
\* Hipparcos line and a Tycho 1 line that present the same HD number for two
\* records, such that the HD number ends with a different record according to
\* which of the two lines is read first.
C24_OrderMatters ==
    star_list = <<>> =>
        \E a \in HipparcosObs : \E b \in Tycho1Obs : OrderDecides(Store, a, b)

\* two lines have been read, Tycho 1 before Hipparcos, and the HD number is
\* with the Hipparcos line's record; read in the order of the program they
\* leave it with the Tycho 1 line's record
C24_Witness ==
    /\ catalogue = 2 /\ total_count = 2
    /\ \E a \in HipparcosObs : \E b \in Tycho1Obs :
           LET empty == [star_list |-> <<>>, lookup |-> EmptyLookup, ok |-> TRUE]
           IN  /\ OrderDecides(empty, a, b)
               /\ CycleOn(CycleOn(empty, b), a).star_list = star_list
               /\ CycleOn(CycleOn(empty, b), a).lookup = lookup
               /\ OwnerOf(Store, a.hd_number, a, b) = "a"
               /\ OwnerOf(CycleOn(CycleOn(empty, a), b), a.hd_number, a, b) = "b"

\* the observation o has no DR2 or Tycho identifier that is bound, its
\* Hipparcos number is bound to a record that the HIP rule keeps, and its HD
\* number is bound to another record
HipAndHdDisagree(o) ==
    /\ ~Bound(lookup["dr2"], o.dr2_id)
    /\ ~Bound(lookup["tyc"], o.tycho_id)
    /\ Bound(lookup["hip"], o.hipparcos_num)
    /\ ~HipMatchVoided(At(star_list, lookup["hip"][o.hipparcos_num]), o.tycho_id)
    /\ Bound(lookup["hd"], o.hd_number)
    /\ lookup["hd"][o.hd_number] # lookup["hip"][o.hipparcos_num]

\* C25 (first hit wins between Hipparcos and Henry-Draper): when a line has no
\* bound Gaia DR2 or Tycho identifier, its Hipparcos number is bound to a record
\* A that the HIP rule keeps and its HD number is bound to another record B,
\* match_star resolves the line to A, and the HD number goes by brightness
\* between A and B: B keeps it (registry, field, rejection flag true, A without
\* it) when B's V magnitude is lower than the V magnitude A has after the
\* line, which is the line's magnitude; otherwise A gets it and B's HD field
\* is emptied.
C25_FirstHitWins ==
    \A l \in MatchLines :
        HipAndHdDisagree(l.obs) =>
            LET A == lookup["hip"][l.obs.hipparcos_num]
                B == lookup["hd"][l.obs.hd_number]
                v == l.obs.hd_number
                after == l.out.star
            IN  /\ l.out.star_id = A
                /\ after.id = A
                /\ after.mag_V = l.obs.mag
                /\ l.out.ok
                /\ IF VMag(star_list, B) # NoMag /\ VMag(star_list, B) < after.mag_V
                   THEN /\ l.out.ids_for_deletion["hd"] = "True"
                        /\ l.out.lookup["hd"][v] = B
                        /\ At(l.out.star_list, B).names_hd_num = v
                        /\ At(l.out.star_list, A).names_hd_num # v
                   ELSE /\ l.out.ids_for_deletion["hd"] = "False"
                        /\ l.out.lookup["hd"][v] = A
                        /\ At(l.out.star_list, A).names_hd_num = v
                        /\ At(l.out.star_list, B).names_hd_num = 0

\* a store with such lines to read: one whose HD number stays with B, and one
\* whose HD number goes to A
C25_Witness ==
    /\ \E l \in MatchLines :
           /\ HipAndHdDisagree(l.obs)
           /\ l.out.ids_for_deletion["hd"] = "True"
           /\ l.out.star_id = lookup["hip"][l.obs.hipparcos_num]
    /\ \E l \in MatchLines :
           /\ HipAndHdDisagree(l.obs)
           /\ l.out.ids_for_deletion["hd"] = "False"
           /\ l.out.lookup["hd"][l.obs.hd_number] = lookup["hip"][l.obs.hipparcos_num]


\* the lines that hand add_star a record that already has an ID: the record
\* match_star or the HIP lookup resolved to, or a new record of the Gaia DR2
\* driver, which calls add_star twice on it
LinesOnAdmitted ==
    {l \in NextLines : l.out.ok /\ ~l.out.skipped /\
        (l.out.star_id # NoId \/
         (l.obs.source = "gaia_dr2" /\ l.out.star.id # NoId))}

\* C26 (add_star is idempotent on admitted records): when a line hands
\* add_star a record that already has an ID, the store gets no further record
\* (none at all for a matched record, one for a new record of the Gaia DR2
\* driver, whichever of its two calls admits it), the record keeps its ID and its
\* place whatever its magnitudes are, its identifiers are registered, and a
\* second add_star on it changes neither the store nor the registries.
C26_AddStarIsIdempotent ==
    \A l \in LinesOnAdmitted :
        LET x == l.out.star
            again == add_star(l.out.star_list, l.out.lookup, x, magnitude_limit)
        IN  /\ Len(l.out.star_list) =
                   Len(star_list) + (IF l.out.star_id = NoId THEN 1 ELSE 0)
            /\ l.out.star_id # NoId => x.id = l.out.star_id
            /\ x.id = (IF l.out.star_id = NoId THEN Len(star_list) ELSE l.out.star_id)
            /\ At(l.out.star_list, x.id) = x
            /\ \A c \in CatSet :
                   x[FieldOf(c)] # 0 => l.out.lookup[c][x[FieldOf(c)]] = x.id
            /\ again.ok
            /\ again.star = x
            /\ again.star_list = l.out.star_list
            /\ again.lookup = l.out.lookup

\* a store with a record to which add_star came back: a magnitude limit is
\* set, the first record failed it when a later line had written its
\* magnitudes and is still there, and a Gaia DR2 line can be read that
\* resolves to a record and gives it a new identifier
C26_Witness ==
    /\ ~aborted
    /\ magnitude_limit # NoLimit
    /\ Len(star_list) >= 1
    /\ ~AcceptStar(star_list[1], magnitude_limit)
    /\ \E l \in LinesOnAdmitted :
           /\ l.out.star_id # NoId
           /\ l.obs.source = "gaia_dr2"
           /\ lookup["dr2"][l.obs.dr2_id] = NoId
           /\ l.out.lookup["dr2"][l.obs.dr2_id] = l.out.star_id


\* C27 as claimed (identifier conservation): an identifier value that a
\* registry binds before an ingestion cycle is bound, after the cycle, to a
\* record of the store, the same one or another
C27_BoundStaysBound ==
    [][~aborted' =>
          \A c \in CatSet : \A v \in IdVals :
              lookup[c][v] # NoId =>
                  /\ lookup'[c][v] # NoId
                  /\ lookup'[c][v] < Len(star_list')]_vars


\* C28 as claimed (no stale registry entries): between ingestion cycles every
\* registry entry names a record of the store whose identifier field of that
\* kind holds the entry's value
C28_NoStaleEntries ==
    ~aborted =>
        \A c \in CatSet : \A v \in IdVals :
            lookup[c][v] # NoId =>
                /\ lookup[c][v] \in StoreUids
                /\ At(star_list, lookup[c][v])[FieldOf(c)] = v


\* the rows of an output file written for the record at position i of the
\* store (a record with a catalogue number has HD number i, see Placed)
RowsFor(output, i) == {k \in 1..Len(output) : output[k].hd_num = i}

\* the output loop has ended, by running out of items or by an exception
OutputEnded == stage = "output" /\ (aborted \/ item = Len(star_magnitudes))

\* C29 as claimed (output membership): when the output loop has ended, the
\* JSON output has exactly one row for every record of the store that has a
\* reference magnitude and a catalogue number, and none for any other record;
\* and at all times every row of the text output is a row of the JSON output.
C29_OutputMembership ==
    /\ \A k \in 1..Len(output_star_charter) :
           \E j \in 1..Len(output_json) : output_json[j] = output_star_charter[k]
    /\ \A k \in 1..Len(output_json) : output_json[k].hd_num \in 1..Len(star_list)
    /\ OutputEnded =>
           \A i \in 1..Len(star_list) :
               Cardinality(RowsFor(output_json, i)) =
                   IF /\ reference_magnitude(star_list[i]) # NoMag
                      /\ ~NoCatalogueIds(star_list[i])
                   THEN 1 ELSE 0


====
